---- MODULE Spec2Model ----
(***************************************************************************)
(* Salus Bridge (src/app/main.py): the FastAPI handlers that proxy HTTP    *)
(* requests to the one process-wide IT600Gateway instance.                 *)
(*                                                                         *)
(* Every handler is a coroutine on one asyncio event loop.  A handler runs *)
(* without interruption from one `await` to the next; while it is          *)
(* suspended in `await gateway.<call>()` other handlers may start or       *)
(* resume.  One action of the model is therefore one such uninterrupted    *)
(* stretch of a handler.  Every gateway call and every enum validation a   *)
(* handler performs is appended to that request's `trace`, in program      *)
(* order, so that ordering and call-count properties can be stated.        *)
(*                                                                         *)
(* Client c1 may issue any endpoint; client c2 issues GET /devices over    *)
(* and over.  The handlers share nothing but the gateway's device cache,   *)
(* which only poll_status() rewrites, so c2 produces every interference a  *)
(* concurrent request can cause to c1.                                     *)
(***************************************************************************)
EXTENDS Integers, Sequences, FiniteSets, TLC

\* ---------------------------------------------------------------- bounds
MaxIds == 3                        \* longest device_ids list of a zone request

DeviceIds == {"A", "B", "C"}       \* ids a request may name
Clients == {"c1", "c2"}
None == "-"

Temperatures == {"18.5", "21.0"}   \* request.temperature, as opaque tokens
ModeInputs == {"off", "heat", "auto", "Heat", "Off"}
PresetInputs == {"Follow Schedule", "Permanent Hold", "Off", "off"}

\* ------------------------------------------------------ program constants
valid_modes == {"off", "heat", "auto"}
valid_presets == {"Follow Schedule", "Permanent Hold", "Off"}

SingleEndpoints == {"get_device", "set_temperature", "set_mode", "set_preset"}
ZoneEndpoints == {"set_zone_temperature", "set_zone_preset"}
AllEndpoints == {"get_devices"} \cup SingleEndpoints \cup ZoneEndpoints

\* endpoints a client issues (input bound, see header)
EndpointsOf(c) == IF c = "c1" THEN AllEndpoints ELSE {"get_devices"}

\* all lists over S of length 0..n
RECURSIVE SeqsUpTo(_, _)
SeqsUpTo(S, n) ==
  IF n = 0 THEN {<<>>}
  ELSE LET shorter == SeqsUpTo(S, n - 1)
       IN  shorter \cup {Append(s, x) : s \in {t \in shorter : Len(t) = n - 1}, x \in S}

IdLists == SeqsUpTo(DeviceIds, MaxIds)

\* the gateway setter an endpoint awaits
SetterOf(ep) ==
  CASE ep \in {"set_temperature", "set_zone_temperature"} -> "set_climate_device_temperature"
    [] ep = "set_mode" -> "set_climate_device_mode"
    [] ep \in {"set_preset", "set_zone_preset"} -> "set_climate_device_preset"
    [] OTHER -> None

\* the values a request body of an endpoint may carry
ValuesOf(ep) ==
  CASE ep \in {"set_temperature", "set_zone_temperature"} -> Temperatures
    [] ep = "set_mode" -> ModeInputs
    [] ep \in {"set_preset", "set_zone_preset"} -> PresetInputs
    [] OTHER -> {None}

VARIABLES
  known,     \* ids in the gateway's device cache, as of the last completed poll
  req        \* per client: the request being handled and the handler's position

vars == <<known, req>>

\* ------------------------------------------------------------ trace events
PollCall == [op |-> "poll_status", id |-> None, val |-> None, ret |-> "pending"]
LookupEv(kn, d) ==
  [op |-> "get_climate_device", id |-> d, val |-> None,
   ret |-> IF d \in kn THEN "device" ELSE "none"]
ValidateEv(v, valid) ==
  [op |-> "validate", id |-> None, val |-> v,
   ret |-> IF v \in valid THEN "ok" ELSE "invalid"]
SetterCall(ep, d, v) == [op |-> SetterOf(ep), id |-> d, val |-> v, ret |-> "pending"]

\* the awaited call (last event of the trace) returns / raises
Returned(tr, how) == [tr EXCEPT ![Len(tr)].ret = how]

Idle ==
  [pc |-> "idle", ep |-> None, id |-> None, ids |-> <<>>, val |-> None,
   i |-> 1, results |-> <<>>, status |-> 0, hasResults |-> FALSE,
   trace |-> <<>>, polled |-> FALSE, seen |-> {}]

\* raise HTTPException(status_code=code): the handler ends without a body of results
HTTPException(r, code) == [r EXCEPT !.pc = "done", !.status = code]

\* `await gateway.<setter>(device_id, value)`: the handler suspends in the call
AwaitSetter(r, d) ==
  [r EXCEPT !.pc = "setter", !.trace = Append(@, SetterCall(r.ep, d, r.val))]

\* ---------------------------------------------------------------- handlers
\* each operator is the handler's code between the return of poll_status()
\* and the next suspension or the end of the handler

get_devices(r, kn) == [r EXCEPT !.pc = "done", !.status = 200]

get_device(r, kn) ==
  LET r1 == [r EXCEPT !.trace = Append(@, LookupEv(kn, r.id))]
  IN  IF r.id \notin kn THEN HTTPException(r1, 404)
      ELSE [r1 EXCEPT !.pc = "done", !.status = 200]

\* variant: the `if not device` check is missing
set_temperature_unchecked(r, kn) ==
  AwaitSetter([r EXCEPT !.trace = Append(@, LookupEv(kn, r.id))], r.id)

set_temperature(r, kn) ==
  LET r1 == [r EXCEPT !.trace = Append(@, LookupEv(kn, r.id))]
  IN  IF r.id \notin kn THEN HTTPException(r1, 404)
      ELSE AwaitSetter(r1, r.id)

\* variant: the mode is checked against the preset list
set_mode_preset_list(r, kn) ==
  LET r1 == [r EXCEPT !.trace = Append(@, LookupEv(kn, r.id))]
      r2 == [r1 EXCEPT !.trace = Append(@, ValidateEv(r.val, valid_presets))]
  IN  IF r.id \notin kn THEN HTTPException(r1, 404)
      ELSE IF r.val \notin valid_presets THEN HTTPException(r2, 400)
      ELSE AwaitSetter(r2, r.id)

set_mode(r, kn) ==
  LET r1 == [r EXCEPT !.trace = Append(@, LookupEv(kn, r.id))]
      r2 == [r1 EXCEPT !.trace = Append(@, ValidateEv(r.val, valid_modes))]
  IN  IF r.id \notin kn THEN HTTPException(r1, 404)
      ELSE IF r.val \notin valid_modes THEN HTTPException(r2, 400)
      ELSE AwaitSetter(r2, r.id)

\* variant: the preset is validated before the device is resolved
set_preset_validate_first(r, kn) ==
  LET r1 == [r EXCEPT !.trace = Append(@, ValidateEv(r.val, valid_presets))]
      r2 == [r1 EXCEPT !.trace = Append(@, LookupEv(kn, r.id))]
  IN  IF r.val \notin valid_presets THEN HTTPException(r1, 400)
      ELSE IF r.id \notin kn THEN HTTPException(r2, 404)
      ELSE AwaitSetter(r2, r.id)

set_preset(r, kn) ==
  LET r1 == [r EXCEPT !.trace = Append(@, LookupEv(kn, r.id))]
      r2 == [r1 EXCEPT !.trace = Append(@, ValidateEv(r.val, valid_presets))]
  IN  IF r.id \notin kn THEN HTTPException(r1, 404)
      ELSE IF r.val \notin valid_presets THEN HTTPException(r2, 400)
      ELSE AwaitSetter(r2, r.id)

\* variant: the loop ends at the first id the gateway does not know
RECURSIVE ZoneLoopBreak(_, _)
ZoneLoopBreak(r, kn) ==
  IF r.i > Len(r.ids)
  THEN [r EXCEPT !.pc = "done", !.status = 200, !.hasResults = TRUE]
  ELSE LET d  == r.ids[r.i]
           r1 == [r EXCEPT !.trace = Append(@, LookupEv(kn, d))]
       IN  IF d \in kn
           THEN AwaitSetter(r1, d)
           ELSE [r1 EXCEPT !.results = Append(@, [device_id |-> d, status |-> "not_found"]),
                           !.i = @ + 1, !.pc = "done", !.status = 200,
                           !.hasResults = TRUE]

\* variant: the setter is awaited whether or not the lookup found the device
ZoneLoopSetAll(r, kn) ==
  IF r.i > Len(r.ids)
  THEN [r EXCEPT !.pc = "done", !.status = 200, !.hasResults = TRUE]
  ELSE AwaitSetter([r EXCEPT !.trace = Append(@, LookupEv(kn, r.ids[r.i]))], r.ids[r.i])

\* the `for device_id in request.device_ids` loop of both zone handlers, from
\* position r.i up to the next suspension (a found device) or the return
RECURSIVE ZoneLoop(_, _)
ZoneLoop(r, kn) ==
  IF r.i > Len(r.ids)
  THEN [r EXCEPT !.pc = "done", !.status = 200, !.hasResults = TRUE]
  ELSE LET d  == r.ids[r.i]
           r1 == [r EXCEPT !.trace = Append(@, LookupEv(kn, d))]
       IN  IF d \in kn
           THEN AwaitSetter(r1, d)
           ELSE ZoneLoop([r1 EXCEPT
                            !.results = Append(@, [device_id |-> d, status |-> "not_found"]),
                            !.i = @ + 1], kn)

set_zone_temperature(r, kn) == ZoneLoop(r, kn)

set_zone_preset(r, kn) ==
  LET r1 == [r EXCEPT !.trace = Append(@, ValidateEv(r.val, valid_presets))]
  IN  IF r.val \notin valid_presets THEN HTTPException(r1, 400)
      ELSE ZoneLoop(r1, kn)

\* dispatch on the route
AfterPoll(r, kn) ==
  CASE r.ep = "get_devices" -> get_devices(r, kn)
    [] r.ep = "get_device" -> get_device(r, kn)
    [] r.ep = "set_temperature" -> set_temperature(r, kn)
    [] r.ep = "set_mode" -> set_mode(r, kn)
    [] r.ep = "set_preset" -> set_preset(r, kn)
    [] r.ep = "set_zone_temperature" -> set_zone_temperature(r, kn)
    [] r.ep = "set_zone_preset" -> set_zone_preset(r, kn)

\* variant: the zone loop refreshes the gateway state again after every setter
AfterSetterRepoll(r, kn) ==
  IF r.ep \in ZoneEndpoints
  THEN ZoneLoop([r EXCEPT
                   !.trace = Append(@, [PollCall EXCEPT !.ret = "ok"]),
                   !.results = Append(@, [device_id |-> r.ids[r.i], status |-> "ok"]),
                   !.i = @ + 1], kn)
  ELSE [r EXCEPT !.pc = "done", !.status = 200]

\* the handler's code after its setter call returned
AfterSetter(r, kn) ==
  IF r.ep \in ZoneEndpoints
  THEN ZoneLoop([r EXCEPT
                   !.results = Append(@, [device_id |-> r.ids[r.i], status |-> "ok"]),
                   !.i = @ + 1], kn)
  ELSE [r EXCEPT !.pc = "done", !.status = 200]

\* variant: the exception is swallowed and the results so far are returned
GatewayErrorSwallowed(r) == [r EXCEPT !.pc = "done", !.status = 200, !.hasResults = TRUE]

\* an exception of the awaited gateway call leaves the handler: no except clause
\* anywhere, the framework answers with a 500
GatewayError(r) == [r EXCEPT !.pc = "done", !.status = 500]

\* ----------------------------------------------------------------- actions
Init ==
  /\ known \in SUBSET DeviceIds          \* lifespan() polled once before serving
  /\ req = [c \in Clients |-> Idle]

\* a request arrives; its handler runs up to `await gateway.poll_status()`
Request(c) ==
  /\ req[c].pc = "idle"
  /\ \E ep \in EndpointsOf(c) :
     \E d \in (IF ep \in SingleEndpoints THEN DeviceIds ELSE {None}) :
     \E l \in (IF ep \in ZoneEndpoints THEN IdLists ELSE {<<>>}) :
     \E v \in ValuesOf(ep) :
       req' = [req EXCEPT ![c] =
                 [Idle EXCEPT !.pc = "poll", !.ep = ep, !.id = d, !.ids = l,
                              !.val = v, !.trace = <<PollCall>>]]
  /\ UNCHANGED known

\* poll_status() returns: the cache now holds whatever the gateway reported
PollReturns(c) ==
  /\ req[c].pc = "poll"
  /\ \E kn \in SUBSET DeviceIds :
       /\ known' = kn
       /\ req' = [req EXCEPT ![c] =
                    AfterPoll([req[c] EXCEPT !.trace = Returned(@, "ok"),
                                             !.polled = TRUE, !.seen = kn], kn)]

PollFails(c) ==
  /\ req[c].pc = "poll"
  /\ req' = [req EXCEPT ![c] = GatewayError([req[c] EXCEPT !.trace = Returned(@, "error")])]
  /\ UNCHANGED known

SetterReturns(c) ==
  /\ req[c].pc = "setter"
  /\ req' = [req EXCEPT ![c] =
               AfterSetter([req[c] EXCEPT !.trace = Returned(@, "ok")], known)]
  /\ UNCHANGED known

SetterFails(c) ==
  /\ req[c].pc = "setter"
  /\ req' = [req EXCEPT ![c] = GatewayError([req[c] EXCEPT !.trace = Returned(@, "error")])]
  /\ UNCHANGED known

\* the response is sent; the client may issue its next request
Respond(c) ==
  /\ req[c].pc = "done"
  /\ req' = [req EXCEPT ![c] = Idle]
  /\ UNCHANGED known

Next ==
  \E c \in Clients :
    \/ Request(c)
    \/ PollReturns(c)
    \/ PollFails(c)
    \/ SetterReturns(c)
    \/ SetterFails(c)
    \/ Respond(c)

Spec == Init /\ [][Next]_vars

TypeOK ==
  /\ known \subseteq DeviceIds
  /\ \A c \in Clients :
       /\ req[c].pc \in {"idle", "poll", "setter", "done"}
       /\ req[c].ep \in AllEndpoints \cup {None}
       /\ req[c].status \in {0, 200, 400, 404, 500}

\* ------------------------------------------------------- reading a trace
SetterOps ==
  {"set_climate_device_temperature", "set_climate_device_mode", "set_climate_device_preset"}

IsSetter(e) == e.op \in SetterOps
IsLookup(e) == e.op = "get_climate_device"
IsPoll(e) == e.op = "poll_status"
IsGatewayCall(e) == e.op # "validate"

Setters(tr) == SelectSeq(tr, IsSetter)
Lookups(tr) == SelectSeq(tr, IsLookup)
Polls(tr) == SelectSeq(tr, IsPoll)
GatewayCalls(tr) == SelectSeq(tr, IsGatewayCall)

Failed(tr) == \E k \in 1..Len(tr) : tr[k].ret = "error"
IdsOf(tr) == [k \in 1..Len(tr) |-> tr[k].id]
Statuses(rs) == [k \in 1..Len(rs) |-> rs[k].status]
TaggedOk(e) == e.status = "ok"
DeviceIdsOf(rs) == [k \in 1..Len(rs) |-> rs[k].device_id]

ZoneRequest(c) == req[c].ep \in ZoneEndpoints
ValidZoneRequest(c) ==
  /\ ZoneRequest(c)
  /\ req[c].ep = "set_zone_preset" => req[c].val \in valid_presets
Done(c) == req[c].pc = "done"

\* ---------------------------------------------------------------- claims

\* C1: a zone request (temperature, or preset with a valid preset) whose
\* gateway calls all succeed returns a results list with exactly one entry per
\* requested id, in request order, each carrying that id.
C1_OneEntryPerId ==
  \A c \in Clients :
    (ValidZoneRequest(c) /\ Done(c) /\ ~Failed(req[c].trace)) =>
      /\ req[c].status = 200
      /\ req[c].hasResults
      /\ Len(req[c].results) = Len(req[c].ids)
      /\ \A j \in 1..Len(req[c].ids) : req[c].results[j].device_id = req[c].ids[j]

\* a batch with a duplicate id and an unknown id in front has been answered
C1_Witness ==
  \E c \in Clients :
    /\ ZoneRequest(c) /\ Done(c) /\ req[c].status = 200
    /\ req[c].ids = <<"B", "A", "A">>
    /\ Statuses(req[c].results) = <<"not_found", "ok", "ok">>

\* what position j of a batch leaves in the trace, read off its result entry
ZoneStep(r, j) ==
  IF r.results[j].status = "ok"
  THEN << [op |-> "get_climate_device", id |-> r.ids[j], val |-> None, ret |-> "device"],
          [op |-> SetterOf(r.ep), id |-> r.ids[j], val |-> r.val, ret |-> "ok"] >>
  ELSE << [op |-> "get_climate_device", id |-> r.ids[j], val |-> None, ret |-> "none"] >>

RECURSIVE ZoneSteps(_, _)
ZoneSteps(r, n) == IF n = 0 THEN <<>> ELSE ZoneSteps(r, n - 1) \o ZoneStep(r, n)

\* what the handler does before its loop
ZonePrologue(r) ==
  << [op |-> "poll_status", id |-> None, val |-> None, ret |-> "ok"] >> \o
  (IF r.ep = "set_zone_preset"
   THEN << [op |-> "validate", id |-> None, val |-> r.val, ret |-> "ok"] >>
   ELSE << >>)

\* the position whose setter call is still awaited, or has raised
ZoneOpenStep(r) ==
  IF r.pc = "setter" \/ (r.pc = "done" /\ r.status = 500)
  THEN << [op |-> "get_climate_device", id |-> r.ids[r.i], val |-> None, ret |-> "device"],
          [op |-> SetterOf(r.ep), id |-> r.ids[r.i], val |-> r.val,
           ret |-> IF r.pc = "setter" THEN "pending" ELSE "error"] >>
  ELSE << >>

\* C2: in a zone batch the entry of a position is tagged ok exactly when the
\* lookup of that id returned a device, and then exactly one setter call with the
\* request's value was made for it; it is tagged not_found exactly when the
\* lookup returned nothing, and then no setter call was made for it.
C2_TagMatchesLookup ==
  \A c \in Clients :
    (ValidZoneRequest(c) /\ req[c].pc \in {"setter", "done"}
       /\ req[c].trace[1].ret = "ok") =>
      /\ req[c].trace =
           ZonePrologue(req[c]) \o ZoneSteps(req[c], Len(req[c].results))
             \o ZoneOpenStep(req[c])
      /\ \A j \in 1..Len(req[c].results) :
           req[c].results[j].status \in {"ok", "not_found"}

\* [A, B, C] with B unknown: [ok, not_found, ok], setter for A and then for C
C2_Witness ==
  \E c \in Clients :
    /\ ZoneRequest(c) /\ Done(c) /\ req[c].status = 200
    /\ req[c].ids = <<"A", "B", "C">>
    /\ Statuses(req[c].results) = <<"ok", "not_found", "ok">>
    /\ IdsOf(Setters(req[c].trace)) = <<"A", "C">>

\* C3 (as stated): an invalid preset makes POST /zone/preset end with 400, no
\* per-device results and no set-preset call.
C3_InvalidPresetIs400 ==
  \A c \in Clients :
    (req[c].ep = "set_zone_preset" /\ req[c].val \notin valid_presets /\ Done(c)) =>
      /\ req[c].status = 400
      /\ ~req[c].hasResults
      /\ Setters(req[c].trace) = <<>>

\* C4 (as stated): an invalid mode makes POST /device/{id}/mode end with 400
\* for any device id, without a set-mode call.
C4_InvalidModeIs400 ==
  \A c \in Clients :
    (req[c].ep = "set_mode" /\ req[c].val \notin valid_modes /\ Done(c)) =>
      /\ req[c].status = 400
      /\ Setters(req[c].trace) = <<>>

\* C4 (amended): an invalid mode never reaches the set-mode setter and never
\* yields a success; the request ends with 400 when the poll succeeded and the
\* device was found, with 404 when the poll succeeded and the id is unknown,
\* and with a server error when the poll failed.
C4_InvalidModeNeverSet ==
  \A c \in Clients :
    (req[c].ep = "set_mode" /\ req[c].val \notin valid_modes) =>
      /\ req[c].pc # "setter"
      /\ Setters(req[c].trace) = <<>>
      /\ Done(c) =>
           req[c].status =
             IF req[c].trace[1].ret = "error" THEN 500
             ELSE IF req[c].trace[2].ret = "device" THEN 400
             ELSE 404

\* an invalid mode for a device the gateway knows has been rejected
C4_Witness ==
  \E c \in Clients :
    /\ req[c].ep = "set_mode" /\ req[c].val = "Heat" /\ Done(c)
    /\ req[c].status = 400
    /\ req[c].trace[2].ret = "device"

SinglePoll(how) == << [op |-> "poll_status", id |-> None, val |-> None, ret |-> how] >>
SingleLookup(r, how) ==
  << [op |-> "get_climate_device", id |-> r.id, val |-> None, ret |-> how] >>
SingleValidate(r, how) ==
  IF r.ep = "set_temperature" THEN << >>
  ELSE << [op |-> "validate", id |-> None, val |-> r.val, ret |-> how] >>
SingleSetter(r, how) ==
  << [op |-> SetterOf(r.ep), id |-> r.id, val |-> r.val, ret |-> how] >>

SingleFound(r) == SinglePoll("ok") \o SingleLookup(r, "device")

\* C6: a single-device mutating request calls poll, lookup, (validation),
\* setter in this order; it makes exactly one setter call, for the requested
\* id and value and with the endpoint's setter, when the device is found and
\* the value is valid, and none when it ends in 404 or 400.
C6_SingleOrder ==
  \A c \in Clients :
    LET r == req[c] IN
    r.ep \in {"set_temperature", "set_mode", "set_preset"} =>
      /\ r.pc = "poll" => r.trace = SinglePoll("pending")
      /\ r.pc = "setter" =>
           r.trace = SingleFound(r) \o SingleValidate(r, "ok") \o SingleSetter(r, "pending")
      /\ (Done(c) /\ r.status = 200) =>
           r.trace = SingleFound(r) \o SingleValidate(r, "ok") \o SingleSetter(r, "ok")
      /\ (Done(c) /\ r.status = 404) =>
           r.trace = SinglePoll("ok") \o SingleLookup(r, "none")
      /\ (Done(c) /\ r.status = 400) =>
           /\ r.ep # "set_temperature"
           /\ r.trace = SingleFound(r) \o SingleValidate(r, "invalid")
      /\ (Done(c) /\ r.status = 500) =>
           \/ r.trace = SinglePoll("error")
           \/ r.trace = SingleFound(r) \o SingleValidate(r, "ok") \o SingleSetter(r, "error")
      /\ (Done(c) /\ r.trace[1].ret = "ok" /\ r.id \notin r.seen) => r.status = 404

\* POST /device/B/preset with "Permanent Hold" has been applied
C6_Witness ==
  \E c \in Clients :
    /\ req[c].ep = "set_preset" /\ Done(c) /\ req[c].status = 200
    /\ req[c].id = "B" /\ req[c].val = "Permanent Hold"
    /\ Len(Setters(req[c].trace)) = 1

\* C7 (as stated): POST /zone/preset with an invalid preset makes no gateway
\* call at all, not even the poll.
C7_ValidateBeforePoll ==
  \A c \in Clients :
    (req[c].ep = "set_zone_preset" /\ req[c].val \notin valid_presets) =>
      GatewayCalls(req[c].trace) = <<>>

\* C8: a zone request that passes validation polls exactly once, whatever the
\* number of ids; that poll is its first gateway call and has returned before
\* the first lookup or setter call.
C8_OnePollPerBatch ==
  \A c \in Clients :
    (ValidZoneRequest(c) /\ req[c].pc # "idle") =>
      /\ Len(Polls(req[c].trace)) = 1
      /\ IsPoll(req[c].trace[1])
      /\ Len(GatewayCalls(req[c].trace)) > 1 => req[c].trace[1].ret = "ok"
      /\ req[c].pc = "poll" => Len(req[c].trace) = 1

\* a batch of three known devices has been served with one poll
C8_Witness ==
  \E c \in Clients :
    /\ ZoneRequest(c) /\ Done(c) /\ req[c].status = 200
    /\ Len(req[c].ids) = 3
    /\ Len(Setters(req[c].trace)) = 3
    /\ Len(Polls(req[c].trace)) = 1

\* C9: a failing gateway call ends the request with a server error and no
\* results list; it is the request's last call (no retry, no call for a later
\* id, no compensating call), and the setter calls that returned before it
\* remain the ones made for the found devices of the earlier positions.
C9_FailurePropagates ==
  \A c \in Clients :
    LET r == req[c]
        n == Len(r.trace)
    IN  Failed(r.trace) =>
          /\ Done(c) /\ r.status = 500 /\ ~r.hasResults
          /\ r.trace[n].ret = "error"
          /\ \A k \in 1..(n - 1) : r.trace[k].ret \notin {"error", "pending"}
          /\ IsPoll(r.trace[n]) => n = 1
          /\ (ZoneRequest(c) /\ IsSetter(r.trace[n])) =>
               /\ r.trace[n].id = r.ids[r.i]
               /\ Len(Lookups(r.trace)) = r.i
               /\ Len(r.results) = r.i - 1
               /\ IdsOf(Setters(r.trace)) =
                    DeviceIdsOf(SelectSeq(r.results, TaggedOk)) \o <<r.ids[r.i]>>
               /\ \A k \in 1..(n - 1) : IsSetter(r.trace[k]) => r.trace[k].ret = "ok"

\* the setter for the third id failed after the first id had been set
C9_Witness ==
  \E c \in Clients :
    /\ ZoneRequest(c) /\ Done(c) /\ req[c].status = 500
    /\ req[c].ids = <<"A", "B", "C">>
    /\ Statuses(req[c].results) = <<"ok", "not_found">>
    /\ IdsOf(Setters(req[c].trace)) = <<"A", "C">>
    /\ req[c].trace[Len(req[c].trace)].ret = "error"

\* C10 (as stated): no two requests are suspended in a gateway call at once.
C10_NoOverlap ==
  Cardinality({c \in Clients : req[c].pc \in {"poll", "setter"}}) <= 1
====
